---------------------------- MODULE Spec2Model ----------------------------
(***************************************************************************)
(* A model of src/src/pumpPortal.ts: the module-level logger reference,    *)
(* setLogger, and the two asynchronous operations buyViaPumpPortal and     *)
(* sellViaPumpPortal.  Each invocation is a chain of continuations cut at  *)
(* its await points (axios.post, sendRawTransaction, getLatestBlockhash,   *)
(* confirmTransaction); the code between two awaits runs atomically, as    *)
(* JavaScript's run-to-completion scheduling guarantees.  The external     *)
(* services answer nondeterministically.                                   *)
(***************************************************************************)
EXTENDS Integers, Sequences, FiniteSets, TLC

(***************************************************************************)
(* JavaScript values.  Every value is a tagged record, so that values of   *)
(* different types can be compared.  A text is a sequence of words.        *)
(***************************************************************************)
Null == [t |-> "null"]

Undefined == [t |-> "undefined"]

Str(s) == [t |-> "string", v |-> s]

Num(n) == [t |-> "number", v |-> n]

Obj(o) == [t |-> "object", v |-> o]

\* ToBoolean, as `if (x)` and `!x` apply it.
Truthy(x) ==
    CASE x.t = "null" -> FALSE
      [] x.t = "undefined" -> FALSE
      [] x.t = "string" -> x.v # <<>>
      [] x.t = "number" -> x.v # 0
      [] OTHER -> TRUE

\* String.prototype.includes on texts: needle occurs as a contiguous run.
Includes(text, needle) ==
    \E i \in 0..(Len(text) - Len(needle)) :
        \A j \in 1..Len(needle) : text[i + j] = needle[j]

(***************************************************************************)
(* Natural numbers of any size, as little-endian sequences of 15-bit limbs *)
(* without high zero limbs (TLC's own integers stop at 2^31 - 1, a         *)
(* double's significand has 53 bits).                                      *)
(***************************************************************************)
Base == 2 ^ 15

RECURSIVE Norm(_)
Norm(a) ==
    IF a = <<>> THEN <<>>
    ELSE IF a[Len(a)] = 0 THEN Norm(SubSeq(a, 1, Len(a) - 1)) ELSE a

RECURSIVE BigOfNat(_)
BigOfNat(n) == IF n = 0 THEN <<>> ELSE <<n % Base>> \o BigOfNat(n \div Base)

Limb(a, i) == IF i >= 1 /\ i <= Len(a) THEN a[i] ELSE 0

RECURSIVE AddCarry(_, _, _, _)
AddCarry(a, b, i, carry) ==
    IF i > Len(a) /\ i > Len(b)
    THEN IF carry = 0 THEN <<>> ELSE <<carry>>
    ELSE LET s == Limb(a, i) + Limb(b, i) + carry
         IN  <<s % Base>> \o AddCarry(a, b, i + 1, s \div Base)

BigAdd(a, b) == Norm(AddCarry(a, b, 1, 0))

\* a times a number d below Base.
RECURSIVE MulSmallFrom(_, _, _, _)
MulSmallFrom(a, d, i, carry) ==
    IF i > Len(a)
    THEN IF carry = 0 THEN <<>> ELSE <<carry>>
    ELSE LET s == a[i] * d + carry
         IN  <<s % Base>> \o MulSmallFrom(a, d, i + 1, s \div Base)

MulSmall(a, d) == Norm(MulSmallFrom(a, d, 1, 0))

ShiftLimbs(a, k) == IF a = <<>> THEN <<>> ELSE [i \in 1..k |-> 0] \o a

RECURSIVE MulFrom(_, _, _)
MulFrom(a, b, j) ==
    IF j > Len(b) THEN <<>>
    ELSE BigAdd(ShiftLimbs(MulSmall(a, b[j]), j - 1), MulFrom(a, b, j + 1))

BigMul(a, b) == MulFrom(a, b, 1)

\* a < b, compared from the highest limb down.
RECURSIVE LessFrom(_, _, _)
LessFrom(a, b, i) ==
    IF i = 0 THEN FALSE
    ELSE IF a[i] # b[i] THEN a[i] < b[i] ELSE LessFrom(a, b, i - 1)

BigLess(a, b) ==
    IF Len(a) # Len(b) THEN Len(a) < Len(b) ELSE LessFrom(a, b, Len(a))

BigLeq(a, b) == a = b \/ BigLess(a, b)

\* Long division by a number d below Base, from the highest limb:
\* <<quotient, remainder>>.
RECURSIVE DivSmallFrom(_, _, _, _)
DivSmallFrom(a, d, i, rem) ==
    IF i = 0 THEN <<<<>>, rem>>
    ELSE LET r == rem * Base + a[i]
             lower == DivSmallFrom(a, d, i - 1, r % d)
         IN  <<Append(lower[1], r \div d), lower[2]>>

DivSmall(a, d) ==
    LET r == DivSmallFrom(a, d, Len(a), 0) IN <<Norm(r[1]), r[2]>>

\* The decimal digits of a natural number, highest first; zero is <<0>>.
RECURSIVE DigitsOf(_)
DigitsOf(a) ==
    LET qr == DivSmall(a, 10)
    IN  IF qr[1] = <<>> THEN <<qr[2]>> ELSE Append(DigitsOf(qr[1]), qr[2])

\* The natural number a digit sequence (highest first) denotes in `radix`.
RECURSIVE BigOfDigits(_, _)
BigOfDigits(ds, radix) ==
    IF ds = <<>> THEN <<>>
    ELSE BigAdd(MulSmall(BigOfDigits(SubSeq(ds, 1, Len(ds) - 1), radix), radix),
                BigOfNat(ds[Len(ds)]))

RECURSIVE Pow2(_)
Pow2(k) == IF k = 0 THEN 1 ELSE 2 * Pow2(k - 1)

RECURSIVE SmallBitLen(_)
SmallBitLen(n) == IF n = 0 THEN 0 ELSE 1 + SmallBitLen(n \div 2)

LimbBits == SmallBitLen(Base) - 1

\* The number of significant bits.
BitLen(a) ==
    IF a = <<>> THEN 0 ELSE LimbBits * (Len(a) - 1) + SmallBitLen(a[Len(a)])

\* Bit i, the lowest being bit 1.
BitAt(a, i) ==
    (Limb(a, ((i - 1) \div LimbBits) + 1) \div Pow2((i - 1) % LimbBits)) % 2

\* a * 2^k.
ShiftLeftBits(a, k) ==
    ShiftLimbs(MulSmall(a, Pow2(k % LimbBits)), k \div LimbBits)

\* floor(a / 2^k).
ShiftRightBits(a, k) ==
    IF k \div LimbBits >= Len(a) THEN <<>>
    ELSE DivSmall(SubSeq(a, (k \div LimbBits) + 1, Len(a)), Pow2(k % LimbBits))[1]

(***************************************************************************)
(* IEEE-754 binary64 numbers that are finite and not negative: the value   *)
(* of [m |-> significand, e |-> k] is m * 2^k.  Overflow, underflow and    *)
(* subnormal results lie outside the amounts modelled.                     *)
(***************************************************************************)
SignificandBits == 53

Dbl(m, e) == [m |-> m, e |-> e]

\* Round a product to 53 significant bits, to nearest, ties to even.
RoundNearestEven(p, e) ==
    IF BitLen(p) <= SignificandBits THEN Dbl(p, e)
    ELSE LET s == BitLen(p) - SignificandBits
             q == ShiftRightBits(p, s)
             guard == BitAt(p, s)
             sticky == \E i \in 1..(s - 1) : BitAt(p, i) = 1
             up == guard = 1 /\ (sticky \/ BitAt(q, 1) = 1)
         IN  Dbl(IF up THEN BigAdd(q, <<1>>) ELSE q, e + s)

\* The `*` of two numbers.
FMul(x, y) == RoundNearestEven(BigMul(x.m, y.m), x.e + y.e)

\* The integer part of a number, as a natural number.
IntegerPart(x) ==
    IF x.e >= 0 THEN ShiftLeftBits(x.m, x.e) ELSE ShiftRightBits(x.m, 0 - x.e)

\* Math.floor.
MathFloor(x) == Dbl(IntegerPart(x), 0)

DigitChars == <<"0", "1", "2", "3", "4", "5", "6", "7", "8", "9">>

\* Number.prototype.toString of an integer below 1e21: its decimal digits,
\* as characters.
NumberToString(x) ==
    LET ds == DigitsOf(IntegerPart(x))
    IN  [i \in 1..Len(ds) |-> DigitChars[ds[i] + 1]]

(***************************************************************************)
(* The values the model exchanges with the outside.                        *)
(***************************************************************************)
Buf(bytes) == [t |-> "buffer", v |-> bytes]

Arr(items) == [t |-> "array", v |-> items]

\* An Error as the catch clauses see it: its response, message and logs.
Err(response, message, logs) ==
    [response |-> response, message |-> message, logs |-> logs]

\* A log call: logger.<level>(msg, arg).
Entry(level, msg, arg) == [level |-> level, msg |-> msg, arg |-> arg]

Loggers == {"defaultLogger", "customLogger"}

\* The wallet of every call, and the mint addresses the calls are given.
WalletKey == "WalletPublicKey"

ValidMint == "So11111111111111111111111111111111111111112"

Mints == {ValidMint, "0OIl-not-base58", "tooShort"}

\* The mint addresses that decode to a 32-byte public key.
WellFormedMints == {ValidMint}

\* 0.0123, 0.0157 and 0.0003 as doubles (hexadecimal significand, exponent).
Sol0123 == Dbl(BigOfDigits(<<1, 9, 3, 0, 11, 14, 0, 13, 14, 13, 2, 8, 8, 13>>, 16), -59)

Sol0157 == Dbl(BigOfDigits(<<1, 0, 1, 3, 10, 9, 2, 10, 3, 0, 5, 5, 3, 2>>, 16), -58)

Sol0003 == Dbl(BigOfDigits(<<1, 3, 10, 9, 2, 10, 3, 0, 5, 5, 3, 2, 6, 1>>, 16), -64)

SolAmounts == {Sol0123, Sol0157, Sol0003}

TokenAmounts == {Dbl(BigOfNat(1000000), 0), Dbl(BigOfNat(7), 0)}

AmountsOf(op) == IF op = "buy" THEN SolAmounts ELSE TokenAmounts

\* slippagePercent and priorityFee are left at their defaults.
DefaultSlippagePercent == 5

DefaultPriorityFee == "0.005"

(***************************************************************************)
(* One invocation of buy or sell: its parameters and locals, where it is   *)
(* suspended, and three records kept for the properties: the external      *)
(* operations it has started, the log calls it has made, and the answers   *)
(* it has been given.                                                      *)
(***************************************************************************)
Idle ==
    [pc |-> "idle", op |-> "none", tokenMint |-> "", amount |-> Dbl(<<>>, 0),
     signature |-> Undefined, result |-> Undefined,
     ops |-> <<>>, logs |-> <<>>, resp |-> <<>>]

Log(k, level, msg, arg) == [k EXCEPT !.logs = Append(@, Entry(level, msg, arg))]

LogAll(k, entries) == [k EXCEPT !.logs = @ \o entries]

\* Start an external operation and suspend on it.
Await(k, name, arg, pc) ==
    [k EXCEPT !.ops = Append(@, [name |-> name, arg |-> arg]), !.pc = pc]

\* A synchronous external operation.
Did(k, name, arg) == [k EXCEPT !.ops = Append(@, [name |-> name, arg |-> arg])]

\* return v: the promise is fulfilled with v.
Return(k, v) == [k EXCEPT !.pc = "returned", !.result = v]

\* An exception leaves the function: the promise is rejected.
Reject(k) == [k EXCEPT !.pc = "rejected"]

(***************************************************************************)
(* The catch clause of buy (lines 116-166) and of sell (lines 251-279).    *)
(***************************************************************************)
MigratedText(text) ==
    \/ Includes(text, <<"bonding", "curve">>)
    \/ Includes(text, <<"migrated">>)
    \/ Includes(text, <<"does", "not", "exist">>)

NotEnoughText(text) ==
    \/ Includes(text, <<"NotEnoughTokensToBuy">>)
    \/ Includes(text, <<"Not", "enough", "tokens">>)

\* Buffer.from(data) throws a TypeError unless data is a buffer or a string.
BufferFromThrows(data) == data.t \notin {"buffer", "string"}

\* Buffer.from(data).toString('utf-8').
ErrorText(data) == data.v

\* status === 400
BadRequest == 400

\* A status check against the wrong code.
IsServerError(status) == status = Num(500)

IsBadRequest(status) == status = Num(BadRequest)

\* The branch for an error that carries a response.  <<entries, returned>>:
\* the log calls made, and whether the early `return null` was taken.
ResponseBranch(tokenMint, response) ==
    LET status == response.v.status
        data == response.v.data
        head == <<Entry("error", "PumpPortal API error:", status)>>
        details ==
            IF ~Truthy(data) THEN <<>>
            ELSE IF BufferFromThrows(data)
                 THEN <<Entry("error", "Error response:", data)>>
                 ELSE <<Entry("error", "Error details:", Str(ErrorText(data)))>>
        migrated ==
            /\ Truthy(data)
            /\ ~BufferFromThrows(data)
            /\ MigratedText(ErrorText(data))
    IN  IF migrated
        THEN <<head \o details \o
               <<Entry("warn", "has migrated or does not exist on pump.fun bonding curve",
                       Str(<<tokenMint>>))>>, TRUE>>
        ELSE <<head \o details \o
               (IF IsBadRequest(status)
                THEN <<Entry("warn", "Invalid token or request parameters for",
                             Str(<<tokenMint>>))>>
                ELSE <<>>), FALSE>>

\* The expanded diagnostic of buy.
BondingCurveDiagnostic(tokenMint) ==
    <<Entry("error", "BONDING CURVE ERROR", Undefined),
      Entry("error", "bonding curve has insufficient tokens", Str(<<tokenMint>>)),
      Entry("error", "Possible reasons:", Undefined),
      Entry("error", "  1. Token bonding curve is almost empty (most tokens sold)", Undefined),
      Entry("error", "  2. Token has migrated/launched (bonding curve completed)", Undefined),
      Entry("error", "  3. Amount requested is too large for available tokens", Undefined)>>

\* error.logs.forEach(...) of buy.
LogLine(line) ==
    IF NotEnoughText(line.v) THEN Entry("error", "  ", line)
    ELSE IF Includes(line.v, <<"Left:">>) \/ Includes(line.v, <<"Right:">>)
         THEN Entry("error", "  ", line)
         ELSE Entry("debug", "  ", line)

\* error.message.includes(...) of buy: is the expanded diagnostic emitted.
MessageMatches(error) == NotEnoughText(error.message.v)

\* The log lines forEach reaches: all of them, or those before the first
\* that is no string, whose `.includes` is a TypeError.
LinesReached(lines) ==
    LET bad == {i \in 1..Len(lines) : lines[i].t # "string"}
    IN  IF bad = {} THEN lines
        ELSE SubSeq(lines, 1, (CHOOSE i \in bad : \A j \in bad : i <= j) - 1)

\* The branch of buy for an error with a message and no response.
BuyMessageBranch(tokenMint, error) ==
    <<Entry("error", "PumpPortal buy error:", error.message)>> \o
    (IF error.message.t # "string" THEN <<>>
     ELSE (IF MessageMatches(error) THEN BondingCurveDiagnostic(tokenMint) ELSE <<>>) \o
          (IF Truthy(error.logs) /\ error.logs.t = "array"
           THEN <<Entry("error", "Transaction Logs:", Undefined)>> \o
                [i \in 1..Len(LinesReached(error.logs.v)) |-> LogLine(error.logs.v[i])]
           ELSE <<>>))

\* A catch clause that rethrows an error carrying neither response nor message.
HandlerRethrowsBareError(op, error) ==
    ~Truthy(error.response) /\ ~Truthy(error.message)

\* Does the catch clause itself throw: `.includes` of a message or of a log
\* line that is no string is a TypeError (buy only).
HandlerThrows(op, error) ==
    /\ op = "buy"
    /\ ~Truthy(error.response)
    /\ Truthy(error.message)
    /\ \/ error.message.t # "string"
       \/ /\ Truthy(error.logs)
          /\ error.logs.t = "array"
          /\ \E i \in 1..Len(error.logs.v) : error.logs.v[i].t # "string"

\* The log calls of the catch clause.
HandlerEntries(op, tokenMint, error) ==
    IF Truthy(error.response) THEN ResponseBranch(tokenMint, error.response)[1]
    ELSE IF Truthy(error.message)
         THEN IF op = "buy" THEN BuyMessageBranch(tokenMint, error)
              ELSE <<Entry("error", "PumpPortal sell error:", error.message)>>
         ELSE IF op = "buy"
              THEN <<Entry("error", "PumpPortal buy error:", Str(<<"Error">>))>>
              ELSE <<Entry("error", "PumpPortal sell error:", Str(<<"Error">>))>>

\* catch (error: any) { ... return null; }
Catch(k, error) ==
    LET logged == LogAll(k, HandlerEntries(k.op, k.tokenMint, error))
    IN  IF HandlerThrows(k.op, error) THEN Reject(logged) ELSE Return(logged, Null)

(***************************************************************************)
(* The try block, cut at its await points.  An answer of the outside is    *)
(* [ok |-> TRUE, value |-> v] (the promise resolved with v) or             *)
(* [ok |-> FALSE, error |-> e] (it rejected with e).                       *)
(***************************************************************************)
Resolved(v) == [ok |-> TRUE, value |-> v]

Rejected(e) == [ok |-> FALSE, error |-> e]

\* An address check that accepts every text.
ParseAcceptsAnything(tokenMint) == Resolved(tokenMint)

\* new PublicKey(tokenMint).toBase58(): throws unless the text decodes to 32
\* bytes, and re-encodes those bytes otherwise.
ParsePublicKey(tokenMint) ==
    IF tokenMint \in WellFormedMints THEN Resolved(tokenMint)
    ELSE Rejected(Err(Undefined, Str(<<"Invalid", "public", "key", "input">>), Undefined))

OneE9 == Dbl(BigOfNat(1000000000), 0)

\* Math.round: floor(x + 1/2).
MathRound(x) ==
    IF x.e >= 0 THEN MathFloor(x)
    ELSE Dbl(ShiftRightBits(BigAdd(x.m, ShiftLeftBits(<<1>>, (0 - x.e) - 1)), 0 - x.e), 0)

\* Math.round(solAmount * 1e9)
AmountRounded(solAmount) == MathRound(FMul(solAmount, OneE9))

\* Math.floor(solAmount * 1e9)
AmountInLamports(solAmount) == MathFloor(FMul(solAmount, OneE9))

\* requestData of buy, params of sell.
RequestData(op, validTokenMint, amount) ==
    [publicKey |-> WalletKey,
     action |-> op,
     mint |-> validTokenMint,
     amount |-> IF op = "buy" THEN NumberToString(AmountInLamports(amount))
                ELSE NumberToString(amount),
     denominatedInSol |-> IF op = "buy" THEN "true" ELSE "false",
     slippage |-> DefaultSlippagePercent,
     priorityFee |-> DefaultPriorityFee,
     pool |-> "pump",
     body |-> IF op = "buy" THEN "object" ELSE "URLSearchParams.toString()"]

\* From the call to the first await: the opening log line, the address
\* check, the request and axios.post.
Start(op, tokenMint, amount) ==
    LET k0 == [Idle EXCEPT !.op = op, !.tokenMint = tokenMint, !.amount = amount]
        k1 == Log(k0, "info",
                  IF op = "buy" THEN "Using PumpPortal API to buy"
                  ELSE "Using PumpPortal API to sell", Str(<<tokenMint>>))
        key == ParsePublicKey(tokenMint)
    IN  IF ~key.ok
        THEN Return(Log(k1, "error", "Invalid token mint address:", key.error.message), Null)
        ELSE LET requestData == RequestData(op, key.value, amount)
             IN  Await(Log(k1, "debug", "PumpPortal API request:", Obj(requestData)),
                       "axios.post", Obj(requestData), "awaitPost")

\* A body check without the length test.
IsMissingBody(data) == ~Truthy(data)

\* !response.data || response.data.length === 0
IsEmptyBody(data) == ~Truthy(data) \/ Len(data.v) = 0

\* An empty body answered by asking the builder again.
EmptyResponseRetries(k) ==
    Await(Log(k, "error", "Empty response from PumpPortal API", Undefined),
          "axios.post", k.ops[1].arg, "awaitPost")

\* The early return on an empty body.
EmptyResponse(k) == Return(Log(k, "error", "Empty response from PumpPortal API", Undefined), Null)

\* VersionedTransaction.deserialize(buffer): throws unless the bytes are a
\* transaction.
Deserialize(data) ==
    IF Len(data.v) = 2 /\ data.v[1] = "tx"
    THEN Resolved(Obj([signer |-> data.v[2], signed |-> FALSE]))
    ELSE Rejected(Err(Undefined, Str(<<"Reached", "end", "of", "buffer">>), Undefined))

\* transaction.sign([wallet]): throws unless the wallet is a signer of it.
Sign(tx) ==
    IF tx.v.signer = WalletKey THEN Resolved(Obj([tx.v EXCEPT !.signed = TRUE]))
    ELSE Rejected(Err(Undefined, Str(<<"Cannot", "sign", "with", "non", "signer", "key">>),
                      Undefined))

\* After axios.post: the body check, deserialize, sign, sendRawTransaction.
AfterPost(k, r) ==
    IF ~r.ok THEN Catch(k, r.error)
    ELSE IF IsEmptyBody(r.value.data) THEN EmptyResponse(k)
    ELSE LET k1 == Log(k, "info", "Received transaction from PumpPortal API (bytes)",
                       Undefined)
             tx == Deserialize(r.value.data)
             k2 == Did(k1, "deserialize", r.value.data)
         IN  IF ~tx.ok THEN Catch(k2, tx.error)
             ELSE LET signed == Sign(tx.value)
                      k3 == Did(k2, "sign", tx.value)
                  IN  IF ~signed.ok THEN Catch(k3, signed.error)
                      ELSE Await(Log(k3, "info", "Sending PumpPortal transaction...",
                                     Undefined),
                                 "sendRawTransaction", signed.value, "awaitSend")

\* After sendRawTransaction: keep the signature, ask for the blockhash.
AfterSend(k, r) ==
    IF ~r.ok THEN Catch(k, r.error)
    ELSE Await(Log([k EXCEPT !.signature = r.value], "info", "Transaction sent:", r.value),
               "getLatestBlockhash", Str(<<"finalized">>), "awaitBlockhash")

\* After getLatestBlockhash: wait for the confirmation of the signature.
AfterBlockhash(k, r) ==
    IF ~r.ok THEN Catch(k, r.error)
    ELSE Await(k, "confirmTransaction",
               Obj([signature |-> k.signature,
                    blockhash |-> r.value.v.blockhash,
                    lastValidBlockHeight |-> r.value.v.lastValidBlockHeight]),
               "awaitConfirm")

\* A confirmation whose on-chain error is not looked at.
OnChainErrorIgnored(confirmation) == FALSE

\* confirmation.value.err
OnChainError(confirmation) == Truthy(confirmation.value.err)

\* After confirmTransaction: the on-chain error check and the two returns.
AfterConfirm(k, r) ==
    IF ~r.ok THEN Catch(k, r.error)
    ELSE IF OnChainError(r.value)
         THEN Return(Log(k, "error", "Transaction failed:", r.value.value.err), Null)
         ELSE Return(Log(Log(k, "info",
                             IF k.op = "buy" THEN "BUY SUCCESSFUL via PumpPortal:"
                             ELSE "SELL SUCCESSFUL via PumpPortal:", k.signature),
                         "info", "Transaction: https://solscan.io/tx/", k.signature),
                     k.signature)

\* The continuation a suspended invocation runs when it is answered.
Continue(k, r) ==
    LET k1 == [k EXCEPT !.resp = Append(@, r)]
    IN  CASE k.pc = "awaitPost" -> AfterPost(k1, r)
          [] k.pc = "awaitSend" -> AfterSend(k1, r)
          [] k.pc = "awaitBlockhash" -> AfterBlockhash(k1, r)
          [] k.pc = "awaitConfirm" -> AfterConfirm(k1, r)

(***************************************************************************)
(* The answers of the outside.                                             *)
(***************************************************************************)
\* Errors with a response: what axios throws on an HTTP error status.
HttpErrors ==
    {Err(Obj([status |-> Num(st), data |-> d]),
         Str(<<"Request", "failed", "with", "status", "code">>), Undefined) :
        st \in {BadRequest, 500},
        d \in {Undefined,
               Buf(<<>>),
               Buf(<<"Bad", "Request">>),
               Buf(<<"token", "has", "migrated">>),
               Obj([error |-> "json"])}}

ProgramLogs ==
    Arr(<<Str(<<"Program", "log:", "Error", "Code:", "NotEnoughTokensToBuy">>),
          Str(<<"Program", "log:", "Left:">>),
          Str(<<"Program", "failed">>)>>)

\* Errors without a response or logs: network and SDK errors, with a message
\* or with none.
PlainErrors ==
    {Err(Undefined, m, Undefined) :
        m \in {Str(<<>>), Str(<<"timeout", "of", "10000ms", "exceeded">>)}}

\* What sendRawTransaction throws when the preflight simulation fails: a
\* message that quotes the program's error name or only its code, and the
\* simulation's logs or none.
SendTransactionErrors ==
    {Err(Undefined, m, l) :
        m \in {Str(<<"custom", "program", "error:", "0x1772">>),
               Str(<<"Simulation", "failed:", "NotEnoughTokensToBuy">>)},
        l \in {Undefined, ProgramLogs}}

PostErrors == HttpErrors \cup PlainErrors

SendErrors == SendTransactionErrors \cup PlainErrors

RpcErrors == PlainErrors

Bodies ==
    {Undefined, Buf(<<>>), Buf(<<"junk">>), Buf(<<"tx", WalletKey>>),
     Buf(<<"tx", "OtherKey">>)}

Signatures == {Str(<<"sig1">>), Str(<<"sig2">>)}

OnChainErrors == {Obj([InstructionError |-> "Custom"]), Str(<<"AccountInUse">>)}

Failures(errors) == {Rejected(e) : e \in errors}

PostAnswers(bodies, errors) ==
    {Resolved([data |-> d]) : d \in bodies} \cup Failures(errors)

SendAnswers(errors) == {Resolved(sig) : sig \in Signatures} \cup Failures(errors)

BlockhashAnswers(errors) ==
    {Resolved(Obj([blockhash |-> "blockhash", lastValidBlockHeight |-> "height"]))}
        \cup Failures(errors)

\* confirmTransaction reports what the chain did with the transaction, or
\* throws (expiry, timeout, network).
ConfirmAnswers(onChain, errors) ==
    (IF onChain = "executed" THEN {Resolved([value |-> [err |-> Null]])} ELSE {})
        \cup (IF onChain = "failed"
              THEN {Resolved([value |-> [err |-> e]]) : e \in OnChainErrors} ELSE {})
        \cup Failures(errors)

(***************************************************************************)
(* The state: the invocations, the module's logger reference, what each    *)
(* logger has written, and what the chain did with each invocation's       *)
(* submitted transaction.                                                  *)
(***************************************************************************)
VARIABLES call, logger, sink, chain

vars == <<call, logger, sink, chain>>

\* `signature` kept at module level, next to `logger`: every invocation's
\* signature is the one most recently received.
StoreSharingSignature(c, k) ==
    [d \in DOMAIN call |->
        IF d = c THEN k
        ELSE IF k.signature = call[c].signature THEN call[d]
             ELSE [call[d] EXCEPT !.signature = k.signature]]

\* The invocation's parameters and locals are its own.
Store(c, k) == [call EXCEPT ![c] = k]

\* defaultLogger discards debug; a custom logger receives every call.
Written(l, entries) ==
    IF l = "defaultLogger" THEN SelectSeq(entries, LAMBDA e : e.level # "debug")
    ELSE entries

\* The log calls a step made go to the logger the module refers to.
Emit(c, old, new) ==
    LET made == SubSeq(new.logs, Len(old.logs) + 1, Len(new.logs))
        lines == Written(logger, made)
    IN  sink' = [sink EXCEPT ![logger] =
                    @ \o [i \in 1..Len(lines) |-> [by |-> c, line |-> lines[i]]]]

Step(c, k) == call' = Store(c, k) /\ Emit(c, call[c], k)

InitOf(callers) ==
    /\ call = [c \in callers |-> Idle]
    /\ logger = "defaultLogger"
    /\ sink = [l \in Loggers |-> <<>>]
    /\ chain = [c \in callers |-> "none"]

\* setLogger(customLogger)
SetLogger(l) ==
    /\ logger' = l
    /\ UNCHANGED <<call, sink, chain>>

\* buyViaPumpPortal(...) or sellViaPumpPortal(...) is called.
Invoke(c, op, tokenMint, amount) ==
    /\ call[c].pc = "idle"
    /\ Step(c, Start(op, tokenMint, amount))
    /\ UNCHANGED <<logger, chain>>

\* axios.post settles.
PostSettles(c, r) ==
    /\ call[c].pc = "awaitPost"
    /\ Step(c, Continue(call[c], r))
    /\ UNCHANGED <<logger, chain>>

\* sendRawTransaction settles; a returned signature means the transaction
\* was handed to the network.
SendSettles(c, r) ==
    /\ call[c].pc = "awaitSend"
    /\ Step(c, Continue(call[c], r))
    /\ chain' = IF r.ok THEN [chain EXCEPT ![c] = "pending"] ELSE chain
    /\ UNCHANGED logger

\* getLatestBlockhash settles.
BlockhashSettles(c, r) ==
    /\ call[c].pc = "awaitBlockhash"
    /\ Step(c, Continue(call[c], r))
    /\ UNCHANGED <<logger, chain>>

\* confirmTransaction settles.
ConfirmSettles(c, r) ==
    /\ call[c].pc = "awaitConfirm"
    /\ Step(c, Continue(call[c], r))
    /\ UNCHANGED <<logger, chain>>

\* The network executes a submitted transaction, fails it, or lets it expire.
ChainProcess(c, outcome) ==
    /\ chain[c] = "pending"
    /\ chain' = [chain EXCEPT ![c] = outcome]
    /\ UNCHANGED <<call, logger, sink>>

ChainOutcomes == {"executed", "failed", "expired"}

Ops == {"buy", "sell"}

CustomLoggers == Loggers \ {"defaultLogger"}

\* One invocation, every answer.
Solo == {1}

Init == InitOf(Solo)

Next ==
    \/ \E l \in CustomLoggers : SetLogger(l)
    \/ \E c \in Solo, op \in Ops, m \in Mints :
          \E a \in AmountsOf(op) : Invoke(c, op, m, a)
    \/ \E c \in Solo : \E r \in PostAnswers(Bodies, PostErrors) : PostSettles(c, r)
    \/ \E c \in Solo : \E r \in SendAnswers(SendErrors) : SendSettles(c, r)
    \/ \E c \in Solo : \E r \in BlockhashAnswers(RpcErrors) : BlockhashSettles(c, r)
    \/ \E c \in Solo : \E r \in ConfirmAnswers(chain[c], RpcErrors) : ConfirmSettles(c, r)
    \/ \E c \in Solo, o \in ChainOutcomes : ChainProcess(c, o)

Spec == Init /\ [][Next]_vars

\* Two invocations in flight at once, a few answers each.
Pair == {1, 2}

PairErrors ==
    {Err(Obj([status |-> Num(BadRequest), data |-> Buf(<<"Bad", "Request">>)]),
         Str(<<"Request", "failed", "with", "status", "code">>), Undefined)}

PairBodies == {Buf(<<"tx", WalletKey>>)}

PairChainOutcomes == {"executed"}

PairCalls ==
    {<<"buy", ValidMint, Sol0123>>,
     <<"sell", ValidMint, Dbl(BigOfNat(1000000), 0)>>}

InitPair == InitOf(Pair)

NextPair ==
    \/ \E l \in CustomLoggers : SetLogger(l)
    \/ \E c \in Pair, a \in PairCalls : Invoke(c, a[1], a[2], a[3])
    \/ \E c \in Pair : \E r \in PostAnswers(PairBodies, PairErrors) : PostSettles(c, r)
    \/ \E c \in Pair : \E r \in SendAnswers({}) : SendSettles(c, r)
    \/ \E c \in Pair : \E r \in BlockhashAnswers({}) : BlockhashSettles(c, r)
    \/ \E c \in Pair : \E r \in ConfirmAnswers(chain[c], {}) : ConfirmSettles(c, r)
    \/ \E c \in Pair, o \in PairChainOutcomes : ChainProcess(c, o)

SpecPair == InitPair /\ [][NextPair]_vars

(***************************************************************************)
(* What the properties speak of.                                           *)
(***************************************************************************)
Callers == DOMAIN call

Count(k, name) == Len(SelectSeq(k.ops, LAMBDA o : o.name = name))

Logged(k, level, msg) == \E i \in 1..Len(k.logs) : k.logs[i].level = level /\ k.logs[i].msg = msg

Last(seq) == seq[Len(seq)]

\* Every answer the invocation was given was a resolved promise.
AllResolved(k) == \A i \in 1..Len(k.resp) : k.resp[i].ok

\* The body is missing or has length zero.
BodyMissingOrEmpty(data) ==
    data.t \in {"undefined", "null"} \/ (data.t = "buffer" /\ data.v = <<>>)

\* Some stage of the invocation failed: the address, an awaited call, the
\* body, deserialize or sign.
StageFailed(k) ==
    \/ k.tokenMint \notin WellFormedMints
    \/ ~AllResolved(k)
    \/ /\ Len(k.resp) >= 1
       /\ k.resp[1].ok
       /\ \/ BodyMissingOrEmpty(k.resp[1].value.data)
          \/ k.resp[1].value.data.v # <<"tx", WalletKey>>

\* C1: buy and sell never raise past their own boundary: whatever stage
\* fails, and whatever the thrown value carries (a response or none, a
\* message or none, logs or none), the promise is fulfilled with null and
\* never rejected.
C1_FailuresResolveToNull ==
    \A c \in Callers :
        /\ call[c].pc # "rejected"
        /\ call[c].pc # "idle" /\ StageFailed(call[c]) =>
              call[c].pc = "returned" /\ call[c].result = Null

\* A call whose confirmTransaction threw an error with neither response nor
\* message has returned null.
C1_Witness ==
    \E c \in Callers :
        /\ call[c].pc = "returned"
        /\ call[c].result = Null
        /\ Len(call[c].resp) = 4
        /\ ~call[c].resp[4].ok
        /\ ~Truthy(call[c].resp[4].error.response)
        /\ ~Truthy(call[c].resp[4].error.message)

\* C2: a token identifier that fails address parsing makes buy and sell
\* return null without any later stage: no request to the builder, nothing
\* deserialized, signed or submitted.
C2_InvalidMintStopsBeforeTransport ==
    \A c \in Callers :
        call[c].pc # "idle" /\ call[c].tokenMint \notin WellFormedMints =>
            /\ call[c].pc = "returned"
            /\ call[c].result = Null
            /\ call[c].ops = <<>>
            /\ chain[c] = "none"

C2_Witness ==
    \E c \in Callers :
        /\ call[c].op = "sell"
        /\ call[c].tokenMint \notin WellFormedMints
        /\ call[c].pc = "returned"
        /\ Logged(call[c], "error", "Invalid token mint address:")

\* C3 as stated: every call requests exactly one signature and attempts
\* exactly one submission, and never repeats the build request.
C3_ExactlyOneAlways ==
    \A c \in Callers :
        call[c].pc = "returned" =>
            /\ Count(call[c], "sign") = 1
            /\ Count(call[c], "sendRawTransaction") = 1
            /\ Count(call[c], "axios.post") <= 1

\* C3 as amended: a call makes at most one build request, requests at most
\* one signature and attempts at most one submission, each only after the
\* one before it; a call that got as far as an answer from
\* sendRawTransaction has made exactly one of each.
C3_AtMostOneAndOneWhenSubmitted ==
    \A c \in Callers :
        /\ Count(call[c], "axios.post") <= 1
        /\ Count(call[c], "sign") <= Count(call[c], "axios.post")
        /\ Count(call[c], "sendRawTransaction") <= Count(call[c], "sign")
        /\ Len(call[c].resp) >= 2 =>
              /\ Count(call[c], "axios.post") = 1
              /\ Count(call[c], "sign") = 1
              /\ Count(call[c], "sendRawTransaction") = 1

C3_Witness ==
    \E c \in Callers :
        /\ call[c].pc = "returned"
        /\ call[c].result.t = "string"
        /\ Count(call[c], "sign") = 1
        /\ Count(call[c], "sendRawTransaction") = 1

\* C4: whenever buy or sell has returned null, no transaction that call
\* submitted is executed successfully on-chain.
C4_NullMeansNotExecuted ==
    \A c \in Callers :
        call[c].pc = "returned" /\ call[c].result = Null => chain[c] # "executed"

\* C5: when build, sign, submit and confirm all complete without throwing,
\* the call returns the very signature sendRawTransaction produced if the
\* confirmation carries no on-chain error, and logs the error and returns
\* null if it carries one; nothing else is ever returned as an identifier.
C5_ReturnsSubmittedSignature ==
    \A c \in Callers :
        LET k == call[c] IN
        /\ k.pc = "returned" /\ Len(k.resp) = 4 /\ AllResolved(k) =>
              IF k.resp[4].value.value.err = Null
              THEN k.result = k.resp[2].value
              ELSE /\ k.result = Null
                   /\ Last(k.logs) =
                        Entry("error", "Transaction failed:", k.resp[4].value.value.err)
        /\ k.pc = "returned" /\ k.result # Null =>
              /\ Len(k.resp) = 4
              /\ AllResolved(k)
              /\ k.resp[4].value.value.err = Null
              /\ k.result = k.resp[2].value

C5_Witness ==
    \E c \in Callers :
        /\ call[c].pc = "returned"
        /\ Len(call[c].resp) = 4
        /\ AllResolved(call[c])
        /\ call[c].resp[4].value.value.err # Null
        /\ call[c].result = Null

\* The builder answered the request with an HTTP error of status 400.
BuilderBadRequest(k) ==
    /\ Len(k.resp) = 1
    /\ ~k.resp[1].ok
    /\ k.resp[1].error.response.t = "object"
    /\ k.resp[1].error.response.v.status = Num(400)

\* The text of an HTTP error's body names a migrated or unknown token.
BodyNamesMigration(k) ==
    LET data == k.resp[1].error.response.v.data
    IN  /\ data.t = "buffer"
        /\ \/ Includes(data.v, <<"bonding", "curve">>)
           \/ Includes(data.v, <<"migrated">>)
           \/ Includes(data.v, <<"does", "not", "exist">>)

\* C6 as stated: a builder error of status 400, whatever its body, makes
\* the call return null and log the 'Invalid token or request parameters'
\* warning through logger.warn.
C6_BadRequestAlwaysWarns ==
    \A c \in Callers :
        BuilderBadRequest(call[c]) =>
            /\ call[c].pc = "returned"
            /\ call[c].result = Null
            /\ Logged(call[c], "warn", "Invalid token or request parameters for")

\* C6 as amended: a builder error of status 400 makes the call return null;
\* it logs the 'Invalid token or request parameters' warning unless the
\* body's text contains "bonding curve", "migrated" or "does not exist", in
\* which case it logs the migrated-or-unknown warning and not that one.
C6_BadRequestWarnsUnlessMigrated ==
    \A c \in Callers :
        BuilderBadRequest(call[c]) =>
            /\ call[c].pc = "returned"
            /\ call[c].result = Null
            /\ Logged(call[c], "warn", "Invalid token or request parameters for")
                  <=> ~BodyNamesMigration(call[c])
            /\ Logged(call[c], "warn",
                      "has migrated or does not exist on pump.fun bonding curve")
                  <=> BodyNamesMigration(call[c])

C6_Witness ==
    \E c \in Callers :
        /\ BuilderBadRequest(call[c])
        /\ call[c].resp[1].error.response.v.data = Buf(<<"Bad", "Request">>)
        /\ Last(call[c].logs).level = "warn"
        /\ Last(call[c].logs).msg = "Invalid token or request parameters for"

\* The error that ended the call carries log lines naming NotEnoughTokensToBuy.
FailedWithNotEnoughInLogs(k) ==
    /\ k.pc = "returned"
    /\ k.resp # <<>>
    /\ ~Last(k.resp).ok
    /\ Last(k.resp).error.logs.t = "array"
    /\ \E i \in 1..Len(Last(k.resp).error.logs.v) :
          Includes(Last(k.resp).error.logs.v[i].v, <<"NotEnoughTokensToBuy">>)

\* C7: a failed buy whose error carries log lines containing
\* "NotEnoughTokensToBuy" returns null and emits the expanded diagnostic with
\* its three possible causes, whatever the error's message is.
C7_LogsAloneGiveDiagnostic ==
    \A c \in Callers :
        call[c].op = "buy" /\ FailedWithNotEnoughInLogs(call[c]) =>
            /\ call[c].result = Null
            /\ Logged(call[c], "error", "BONDING CURVE ERROR")
            /\ Logged(call[c], "error",
                      "  1. Token bonding curve is almost empty (most tokens sold)")
            /\ Logged(call[c], "error",
                      "  2. Token has migrated/launched (bonding curve completed)")
            /\ Logged(call[c], "error",
                      "  3. Amount requested is too large for available tokens")

\* C8: a successful answer of the builder with a missing or zero-length body
\* makes the call log the empty-response error and return null; the body is
\* never deserialized, nothing is signed or submitted, and the builder is
\* not asked again.
C8_EmptyBodyStopsTheCall ==
    \A c \in Callers :
        LET k == call[c] IN
        Len(k.resp) >= 1 /\ k.resp[1].ok /\ BodyMissingOrEmpty(k.resp[1].value.data) =>
            /\ k.pc = "returned"
            /\ k.result = Null
            /\ Last(k.logs) = Entry("error", "Empty response from PumpPortal API", Undefined)
            /\ Len(k.ops) = 1
            /\ k.ops[1].name = "axios.post"
            /\ chain[c] = "none"

C8_Witness ==
    \E c \in Callers :
        /\ call[c].pc = "returned"
        /\ Len(call[c].resp) = 1
        /\ call[c].resp[1].ok
        /\ call[c].resp[1].value.data = Buf(<<>>)

\* The request the call sent to the builder.
Payload(k) == k.ops[1].arg.v

DigitValue(ch) == CHOOSE d \in 0..9 : DigitChars[d + 1] = ch

\* A decimal numeral without sign, fraction, exponent or leading zero.
IsDecimalNumeral(chars) ==
    /\ Len(chars) >= 1
    /\ \A i \in 1..Len(chars) : \E d \in 0..9 : DigitChars[d + 1] = chars[i]
    /\ Len(chars) > 1 => chars[1] # "0"

NumeralValue(chars) ==
    BigOfDigits([i \in 1..Len(chars) |-> DigitValue(chars[i])], 10)

\* n <= x < n + 1, for a natural number n and a double x.
IsFloorOf(n, x) ==
    IF x.e >= 0 THEN n = ShiftLeftBits(x.m, x.e)
    ELSE /\ BigLeq(ShiftLeftBits(n, 0 - x.e), x.m)
         /\ BigLess(x.m, ShiftLeftBits(BigAdd(n, <<1>>), 0 - x.e))

\* C9: with a valid token identifier, the amount sent to the builder is, for
\* buy, the decimal string of floor(solAmount * 1e9), the product being the
\* double the multiplication yields (0.0123 gives 12300000), and, for sell,
\* the decimal string of tokenAmount itself, unscaled.
C9_AmountSentToBuilder ==
    \A c \in Callers :
        LET k == call[c] IN
        k.ops # <<>> =>
            /\ k.ops[1].name = "axios.post"
            /\ IsDecimalNumeral(Payload(k).amount)
            /\ IF k.op = "buy"
               THEN /\ IsFloorOf(NumeralValue(Payload(k).amount), FMul(k.amount, OneE9))
                    /\ k.amount = Sol0123 =>
                          Payload(k).amount = <<"1", "2", "3", "0", "0", "0", "0", "0">>
               ELSE Dbl(NumeralValue(Payload(k).amount), 0) = k.amount

\* A buy of 0.0157 SOL, whose product with 1e9 is the double just below
\* 15700000, has asked the builder for 15699999 lamports.
C9_Witness ==
    \E c \in Callers :
        /\ call[c].op = "buy"
        /\ call[c].amount = Sol0157
        /\ call[c].ops # <<>>
        /\ Payload(call[c]).amount = <<"1", "5", "6", "9", "9", "9", "9", "9">>

\* The invocation run alone: started with its arguments and given, in order,
\* the answers it was given.
RECURSIVE ReplayFrom(_, _, _)
ReplayFrom(k, answers, i) ==
    IF i > Len(answers) THEN k
    ELSE ReplayFrom(Continue(k, answers[i]), answers, i + 1)

Alone(k) == ReplayFrom(Start(k.op, k.tokenMint, k.amount), k.resp, 1)

\* C10: however two invocations interleave with each other and with
\* setLogger, each one's position, return value, external operations and log
\* calls are those of the same invocation run alone with the same answers;
\* what the interleaving decides is which logger writes each line, and in
\* what order: every line written is a log call of the invocation it is
\* attributed to.
C10_InterleavingChangesOnlyTheLog ==
    /\ \A c \in Callers : call[c].pc # "idle" => call[c] = Alone(call[c])
    /\ \A l \in Loggers : \A i \in 1..Len(sink[l]) :
          \E j \in 1..Len(call[sink[l][i].by].logs) :
              call[sink[l][i].by].logs[j] = sink[l][i].line

\* Two invocations with the same arguments have both returned, each after
\* its own build request and with its own signature, their log lines
\* interleaved in one logger.
C10_Witness ==
    /\ Callers = Pair
    /\ call[1].pc = "returned"
    /\ call[2].pc = "returned"
    /\ call[1].op = call[2].op
    /\ call[1].amount = call[2].amount
    /\ call[1].result.t = "string"
    /\ call[2].result.t = "string"
    /\ call[1].result # call[2].result
    /\ Count(call[1], "axios.post") = 1
    /\ Count(call[2], "axios.post") = 1
    /\ \E l \in Loggers : \E i, j, n \in 1..Len(sink[l]) :
          /\ i < j
          /\ j < n
          /\ sink[l][i].by = 1
          /\ sink[l][j].by = 2
          /\ sink[l][n].by = 1

=============================================================================
